---- MODULE Spec2Model ----
(***************************************************************************)
(* Model of the wallet transfer coordinator (WalletService.transfer) of    *)
(* sycm-backend: Redis result cache and lease, the PostgreSQL tables       *)
(* wallets / transaction_logs / ledger_entries, and the SERIALIZABLE       *)
(* transaction of executeTransfer with its row locks.  Money is counted in *)
(* minor units (DECIMAL(20,2) values times 100), so the Decimal arithmetic *)
(* of the wallet service is exact integer arithmetic here.                 *)
(* The second part models the interest service (InterestService): the      *)
(* Decimal.js arithmetic with 20 significant digits, JavaScript dates in   *)
(* the time zone of the process, the interest_records table, and the       *)
(* daily and batch calculations.                                           *)
(***************************************************************************)
EXTENDS Integers, Sequences, FiniteSets, TLC

\* ---------------------------------------------------------------- bounds
NWorkers == 3
MaxConcurrent == 2
NKeys == 2
MaxCalls == 3
MaxInactive == 1

Workers == 1..NWorkers
Keys == 1..NKeys

\* ------------------------------------------------------------- constants
MaxAmount == 1000000000
InitialVersion == 1

WalletIds == {"A", "B"}
OpeningBalance == [id \in WalletIds |-> IF id = "A" THEN 2 ELSE 1]

\* The well-formed transfer requests a client may send: one payload per
\* idempotency key.
Requests ==
  { [fromWalletId |-> "A", toWalletId |-> "B", amount |-> 1],
    [fromWalletId |-> "A", toWalletId |-> "B", amount |-> 2],
    [fromWalletId |-> "B", toWalletId |-> "A", amount |-> 1] }

\* The malformed variants of a payload that a client may send under the same
\* key: source = destination, amount 0, amount above the limit.
InvalidVariants(r) ==
  { [r EXCEPT !.toWalletId = r.fromWalletId],
    [r EXCEPT !.amount = 0],
    [r EXCEPT !.amount = MaxAmount + 1] }

\* --------------------------------------------------------------- records
NoWallet == [balance |-> 0, version |-> 0, status |-> "ABSENT"]
NoResult == [transactionId |-> 0, status |-> "NONE", fromBalance |-> 0, toBalance |-> 0]
\* history: the place of an idempotency:{k} entry that Redis has dropped
ExpiredResult ==
  [transactionId |-> 0, status |-> "EXPIRED", fromBalance |-> 0, toBalance |-> 0]
NoRet == [kind |-> "none", key |-> 0, late |-> FALSE, startStatus |-> "NONE",
          valid |-> TRUE, result |-> NoResult]
NoLocals ==
  [transactionLog |-> 0, existing |-> 0, fromWallet |-> NoWallet,
   toWallet |-> NoWallet, error |-> "none", result |-> NoResult]
NoTx == [snapshot |-> FALSE, heldWallets |-> {}, heldLogs |-> {},
         staleWallets |-> {}, staleLogs |-> {}]
NoReq == [fromWalletId |-> "", toWalletId |-> "", amount |-> 0]
NoCall == [key |-> 0, req |-> NoReq, late |-> FALSE, expired |-> FALSE,
           startStatus |-> "NONE", inserted |-> FALSE]

VARIABLES
  wallets,   \* committed wallets table: id -> [balance, version, status]
  logs,      \* committed transaction_logs table: sequence of rows, id = index
  ledger,    \* committed ledger_entries table: sequence of rows
  cache,     \* Redis idempotency:{k}: key -> cached result, or NoResult
             \* (never written), or ExpiredResult (written and dropped)
  lease,     \* Redis lock:{k}: key -> BOOLEAN
  reqOf,     \* the payload the clients send with each idempotency key
  pc,        \* position of each worker inside transfer()
  call,      \* the call a worker is serving: its key and payload; history:
             \* whether the key's transfer had committed, whether its cached
             \* result had expired, and the row's status, at its start, and
             \* whether its insert of the log row has succeeded
  loc,       \* the local variables of the call
  tx,        \* the database transaction of the call: snapshot and row locks
  ret,       \* what the worker's last finished call returned
  calls,     \* number of calls started so far
  first,     \* history: the result of the first committed transfer of each key
  tz,        \* time zone of the server process (InterestService)
  records,   \* committed interest_records table: sequence of rows
  daily,     \* the calculateDailyInterest request of the client and its
             \* outcome
  batch      \* the calculateBatchInterest request of the client: the loop's
             \* local variables and its outcome

interestVars == <<tz, records, daily, batch>>

walletVars == <<wallets, logs, ledger, cache, lease, reqOf, pc, call, loc, tx,
                ret, calls, first>>

vars == <<walletVars, interestVars>>

dbVars == <<wallets, logs, ledger>>

\* ------------------------------------------------------- row-level helpers
\* transactionLogModel.findOne({where: {idempotencyKey}}): id of the row or 0
FindOne(k) ==
  IF \E i \in 1..Len(logs) : logs[i].idempotencyKey = k
  THEN CHOOSE i \in 1..Len(logs) :
         /\ logs[i].idempotencyKey = k
         /\ \A j \in 1..Len(logs) : logs[j].idempotencyKey = k => i <= j
  ELSE 0

\* walletModel.findByPk(id) without a lock: the committed row
FindByPk(id) == IF id \in DOMAIN wallets THEN wallets[id] ELSE NoWallet

\* mutant: isCompleted answers true for every row
IsCompleted_Any(row) == TRUE

\* TransactionLog.isCompleted
IsCompleted(row) == row.status = "COMPLETED"
\* mutant: isActive answers true for every wallet
IsActive_Any(w) == TRUE

\* Wallet.isActive
IsActive(w) == w.status = "ACTIVE"
\* mutant: the balance check of hasAvailableBalance accepts every amount
HasAvailableBalance_NoCheck(w, amount) == TRUE

\* Wallet.hasAvailableBalance: parseFloat(balance) >= parseFloat(amount)
HasAvailableBalance(w, amount) == w.balance >= amount

\* mutant: validateTransferRequest accepts every request
ValidateTransferRequest_AcceptAll(r) == TRUE

\* validateTransferRequest: TRUE when the request passes
ValidateTransferRequest(r) ==
  /\ r.fromWalletId # r.toWalletId
  /\ r.amount > 0
  /\ r.amount <= MaxAmount

\* the error getCachedResult raises for the two wallet snapshots, or "none"
CachedResultError(fw, tw) ==
  IF fw.status = "ABSENT" THEN "NotFound"
  ELSE IF tw.status = "ABSENT" THEN "NotFound"
  ELSE IF ~IsActive(fw) THEN "InactiveWallet"
  ELSE IF ~IsActive(tw) THEN "InactiveWallet"
  ELSE "none"

\* the response getCachedResult builds from the log row and current wallets
GetCachedResult(id, status, fw, tw) ==
  [transactionId |-> id, status |-> status,
   fromBalance |-> fw.balance, toBalance |-> tw.balance]

Req(w) == call[w].req

\* ------------------------------------------------------------------- Redis
\* mutant: redis.get misses every time
RedisGet_Miss(k) == NoResult

\* checkIdempotency: JSON.parse(redis.get(idempotency:{k})), NoResult on a miss
RedisGet(k) == IF cache[k] = ExpiredResult THEN NoResult ELSE cache[k]

\* mutant: SET without NX, every caller gets OK
AcquireLock_Always(k) == TRUE

\* acquireLock: SET lock:{k} 1 EX 30 NX answers OK only when the key is unset
AcquireLock(k) == ~lease[k]

\* mutant: releaseLock leaves lock:{k} in place
ReleaseLock_Keep(k) == lease

\* releaseLock: DEL lock:{k}; the value of the lease table afterwards
ReleaseLock(k) == [lease EXCEPT ![k] = FALSE]

\* ------------------------------------------------------ database row locks
\* mutant: FOR UPDATE does not wait for the row lock of another transaction
WalletLockedByOther_Never(w, id) == FALSE

\* another transaction holds the row lock of wallet id
WalletLockedByOther(w, id) ==
  \E o \in Workers \ {w} : id \in tx[o].heldWallets
LogLockedByOther(w, id) ==
  \E o \in Workers \ {w} : id \in tx[o].heldLogs

\* rows committed by worker w become stale for every other open snapshot
MarkStale(w, ws, ls) ==
  [o \in Workers |->
     IF o = w THEN NoTx
     ELSE IF tx[o].snapshot
          THEN [tx[o] EXCEPT !.staleWallets = @ \cup ws, !.staleLogs = @ \cup ls]
          ELSE tx[o]]

\* ------------------------------------------------------------ call return
Return(w, kind, result) ==
  /\ pc' = [pc EXCEPT ![w] = "idle"]
  /\ ret' = [ret EXCEPT ![w] =
               [kind |-> kind, key |-> call[w].key, late |-> call[w].late,
                startStatus |-> call[w].startStatus,
                valid |-> ValidateTransferRequest(call[w].req),
                result |-> result]]
  /\ loc' = [loc EXCEPT ![w] = NoLocals]
  /\ call' = [call EXCEPT ![w] = NoCall]

\* an error thrown inside transfer()'s try block: the catch clause updates the
\* row to FAILED only when transactionLog has been assigned
Throw(w, e) ==
  /\ pc' = [pc EXCEPT ![w] =
              IF loc[w].transactionLog # 0 THEN "fail_update" ELSE "release"]
  /\ loc' = [loc EXCEPT ![w] =
              [NoLocals EXCEPT !.transactionLog = loc[w].transactionLog,
                               !.error = e]]

\* an error inside the managed transaction: ROLLBACK, then the catch clause
Rollback(w, e) ==
  /\ Throw(w, e)
  /\ tx' = [tx EXCEPT ![w] = NoTx]

\* keys are interchangeable names: only one order of their payloads is kept
Rank(r) == (IF r.fromWalletId = "A" THEN 0 ELSE 4)
           + (IF r.toWalletId = "B" THEN 0 ELSE 2) + (r.amount - 1)
Ordered(f) == \A k \in Keys : k + 1 \in Keys => Rank(f[k]) <= Rank(f[k + 1])

\* ------------------------------------------- interest service: sentinels
\* a Decimal is [neg, d, e]: the number (+/-) d[1] d[2] ... d[n] * 10^(-e),
\* d without leading zeros; this one is 0
NoDecimal == [neg |-> FALSE, d |-> <<>>, e |-> 0]

\* a date string "YYYY-MM-DD" is [y, m, d]; this one is a string that is
\* not a date
NoDate == [y |-> 0, m |-> 0, d |-> 0]

\* a Date object is [valid, t], t in hours since 1970-01-01T00:00Z; this
\* one is the Invalid Date
InvalidDate == [valid |-> FALSE, t |-> 0]

\* "no response": the call threw
NoResponse == [principal |-> NoDecimal, annualRate |-> NoDecimal,
               dailyRate |-> NoDecimal, interestAmount |-> NoDecimal,
               calculationDate |-> NoDate, isLeapYear |-> FALSE,
               daysInYear |-> 0, recordId |-> 0]

NoDailyDto == [principalAmount |-> NoDecimal, annualRate |-> NoDecimal,
               calculationDate |-> NoDate]

NoBatchDto == [principalAmount |-> NoDecimal, annualRate |-> NoDecimal,
               startDate |-> NoDate, endDate |-> NoDate]

NoDaily == [dto |-> NoDailyDto, kind |-> "none", response |-> NoResponse]

NoBatch == [pc |-> "none", dto |-> NoBatchDto, kind |-> "none",
            currentDate |-> InvalidDate, calculations |-> <<>>,
            totalInterest |-> NoDecimal, numberOfDays |-> 0]

\* the interest service with no request made
InterestIdle ==
  /\ tz = "UTC"
  /\ records = <<>>
  /\ daily = NoDaily
  /\ batch = NoBatch

\* -------------------------------------------------------------------- Init
Init ==
  /\ wallets = [id \in WalletIds |->
                  [balance |-> OpeningBalance[id], version |-> InitialVersion,
                   status |-> "ACTIVE"]]
  /\ logs = <<>>
  /\ ledger = <<>>
  /\ cache = [k \in Keys |-> NoResult]
  /\ lease = [k \in Keys |-> FALSE]
  /\ reqOf \in [Keys -> Requests]
  /\ Ordered(reqOf)
  /\ pc = [w \in Workers |-> "idle"]
  /\ call = [w \in Workers |-> NoCall]
  /\ loc = [w \in Workers |-> NoLocals]
  /\ tx = [w \in Workers |-> NoTx]
  /\ ret = [w \in Workers |-> NoRet]
  /\ calls = 0
  /\ first = [k \in Keys |-> NoResult]
  /\ InterestIdle

\* ------------------------------------------------- transfer(): entry, cache
\* a client invokes transfer() on worker w with idempotency key k and either
\* the key's payload or a malformed variant of it; idle workers are
\* interchangeable, so the call goes to the lowest idle one
Start(w) ==
  /\ pc[w] = "idle"
  /\ \A o \in Workers : o < w => pc[o] # "idle"
  /\ calls < MaxCalls
  /\ \E k \in {j \in Keys : reqOf[j] # NoReq} :
     \E r \in {reqOf[k]} \cup InvalidVariants(reqOf[k]) :
       call' = [call EXCEPT ![w] =
                  [key |-> k, req |-> r,
                   late |-> first[k] # NoResult,
                   expired |-> cache[k] = ExpiredResult,
                   startStatus |-> IF FindOne(k) = 0 THEN "NONE"
                                   ELSE logs[FindOne(k)].status,
                   inserted |-> FALSE]]
  /\ calls' = calls + 1
  /\ pc' = [pc EXCEPT ![w] = "check"]
  /\ ret' = [ret EXCEPT ![w] = NoRet]
  /\ UNCHANGED <<wallets, logs, ledger, cache, lease, reqOf, interestVars, loc, tx, first>>

\* checkIdempotency, redis.get: a hit returns the cached result at once
CheckCache(w) ==
  /\ pc[w] = "check"
  /\ IF RedisGet(call[w].key) # NoResult
     THEN Return(w, "cached", RedisGet(call[w].key))
     ELSE /\ pc' = [pc EXCEPT ![w] = "check_db"]
          /\ UNCHANGED <<ret, loc, call>>
  /\ UNCHANGED <<wallets, logs, ledger, cache, lease, reqOf, interestVars, tx, calls, first>>

\* checkIdempotency, findOne: a COMPLETED row is answered by getCachedResult;
\* otherwise validateTransferRequest and acquireLock follow
CheckDb(w) ==
  /\ pc[w] = "check_db"
  /\ LET id == FindOne(call[w].key) IN
       IF id # 0 /\ IsCompleted(logs[id])
       THEN /\ pc' = [pc EXCEPT ![w] = "check_from"]
            /\ loc' = [loc EXCEPT ![w].existing = id]
       ELSE /\ pc' = [pc EXCEPT ![w] = "acquire"]
            /\ UNCHANGED loc
  /\ UNCHANGED <<wallets, logs, ledger, cache, lease, reqOf, interestVars, call, tx, ret, calls, first>>

\* getCachedResult, first findByPk (source wallet)
CheckFrom(w) ==
  /\ pc[w] = "check_from"
  /\ pc' = [pc EXCEPT ![w] = "check_to"]
  /\ loc' = [loc EXCEPT ![w].fromWallet = FindByPk(logs[loc[w].existing].fromWalletId)]
  /\ UNCHANGED <<wallets, logs, ledger, cache, lease, reqOf, interestVars, call, tx, ret, calls, first>>

\* getCachedResult, second findByPk and the response; transfer() returns it
CheckTo(w) ==
  /\ pc[w] = "check_to"
  /\ LET fw == loc[w].fromWallet
         tw == FindByPk(logs[loc[w].existing].toWalletId)
         e == CachedResultError(fw, tw)
     IN IF e # "none"
        THEN Return(w, e, NoResult)
        ELSE Return(w, "replay", GetCachedResult(loc[w].existing, "COMPLETED", fw, tw))
  /\ UNCHANGED <<wallets, logs, ledger, cache, lease, reqOf, interestVars, tx, calls, first>>

\* mutant: acquireLock sits inside the try block, so that a refused caller
\* runs the finally block and deletes lock:{k}
Acquire_InsideTry(w) ==
  /\ pc[w] = "acquire"
  /\ IF ~ValidateTransferRequest(Req(w))
     THEN Return(w, "BadRequest", NoResult) /\ UNCHANGED lease
     ELSE IF ~AcquireLock(call[w].key)
     THEN Return(w, "Conflict", NoResult) /\ lease' = ReleaseLock(call[w].key)
     ELSE /\ lease' = [lease EXCEPT ![call[w].key] = TRUE]
          /\ pc' = [pc EXCEPT ![w] = "create"]
          /\ UNCHANGED <<ret, loc, call>>
  /\ UNCHANGED <<wallets, logs, ledger, cache, reqOf, interestVars, tx, calls, first>>

\* validateTransferRequest, then acquireLock: SET lock:{k} 1 EX 30 NX
Acquire(w) ==
  /\ pc[w] = "acquire"
  /\ IF ~ValidateTransferRequest(Req(w))
     THEN Return(w, "BadRequest", NoResult) /\ UNCHANGED lease
     ELSE IF ~AcquireLock(call[w].key)
     THEN Return(w, "Conflict", NoResult) /\ UNCHANGED lease
     ELSE /\ lease' = [lease EXCEPT ![call[w].key] = TRUE]
          /\ pc' = [pc EXCEPT ![w] = "create"]
          /\ UNCHANGED <<ret, loc, call>>
  /\ UNCHANGED <<wallets, logs, ledger, cache, reqOf, interestVars, tx, calls, first>>

\* ------------------------------------------- transfer(): durable intent row
NewLog(k, r) ==
  [idempotencyKey |-> k, fromWalletId |-> r.fromWalletId,
   toWalletId |-> r.toWalletId, amount |-> r.amount, status |-> "PENDING",
   completedAt |-> FALSE, errorMessage |-> FALSE]

\* mutant: transaction_logs without the UNIQUE index on idempotency_key
UniqueViolation_NoIndex(k) == FALSE

\* the UNIQUE index on idempotency_key rejects a second row for the key
UniqueViolation(k) == FindOne(k) # 0

\* createTransactionLog, transactionLogModel.create
Create(w) ==
  /\ pc[w] = "create"
  /\ IF UniqueViolation(call[w].key)
     THEN /\ pc' = [pc EXCEPT ![w] = "dup_find"]
          /\ UNCHANGED <<logs, loc, call>>
     ELSE /\ logs' = Append(logs, NewLog(call[w].key, Req(w)))
          /\ loc' = [loc EXCEPT ![w].transactionLog = Len(logs) + 1]
          /\ call' = [call EXCEPT ![w].inserted = TRUE]
          /\ pc' = [pc EXCEPT ![w] = "tx_begin"]
  /\ UNCHANGED <<wallets, ledger, cache, lease, reqOf, interestVars, tx, ret, calls, first>>

\* createTransactionLog, catch of SequelizeUniqueConstraintError: findOne
DupFind(w) ==
  /\ pc[w] = "dup_find"
  /\ LET id == FindOne(call[w].key) IN
       IF id # 0 /\ IsCompleted(logs[id])
       THEN /\ pc' = [pc EXCEPT ![w] = "dup_from"]
            /\ loc' = [loc EXCEPT ![w].existing = id]
       ELSE Throw(w, "Conflict")
  /\ UNCHANGED <<wallets, logs, ledger, cache, lease, reqOf, interestVars, call, tx, ret, calls, first>>

\* createTransactionLog -> getCachedResult, first findByPk
DupFrom(w) ==
  /\ pc[w] = "dup_from"
  /\ pc' = [pc EXCEPT ![w] = "dup_to"]
  /\ loc' = [loc EXCEPT ![w].fromWallet = FindByPk(logs[loc[w].existing].fromWalletId)]
  /\ UNCHANGED <<wallets, logs, ledger, cache, lease, reqOf, interestVars, call, tx, ret, calls, first>>

\* createTransactionLog -> getCachedResult, second findByPk; a result makes
\* createTransactionLog return the existing row, and transfer() carries on
\* with executeTransfer(existing, transferDto)
DupTo(w) ==
  /\ pc[w] = "dup_to"
  /\ LET e == CachedResultError(loc[w].fromWallet,
                                FindByPk(logs[loc[w].existing].toWalletId)) IN
       IF e # "none"
       THEN Throw(w, e)
       ELSE /\ pc' = [pc EXCEPT ![w] = "tx_begin"]
            /\ loc' = [loc EXCEPT ![w] =
                         [NoLocals EXCEPT !.transactionLog = loc[w].existing]]
  /\ UNCHANGED <<wallets, logs, ledger, cache, lease, reqOf, interestVars, call, tx, ret, calls, first>>

\* ----------------------------------- executeTransfer(): the SERIALIZABLE txn
\* sequelize.transaction: the first statement starts and takes the snapshot
TxBegin(w) ==
  /\ pc[w] = "tx_begin"
  /\ tx' = [tx EXCEPT ![w] = [NoTx EXCEPT !.snapshot = TRUE]]
  /\ pc' = [pc EXCEPT ![w] = "tx_log"]
  /\ UNCHANGED <<wallets, logs, ledger, cache, lease, reqOf, interestVars, call, loc, ret, calls, first>>

\* transactionLog.update({status: PROCESSING}, {transaction}): takes the row
\* lock of the log row; a row changed since the snapshot fails to serialize
TxLog(w) ==
  /\ pc[w] = "tx_log"
  /\ ~LogLockedByOther(w, loc[w].transactionLog)
  /\ IF loc[w].transactionLog \in tx[w].staleLogs
     THEN Rollback(w, "DbError")
     ELSE /\ tx' = [tx EXCEPT ![w].heldLogs = @ \cup {loc[w].transactionLog}]
          /\ pc' = [pc EXCEPT ![w] = "tx_from"]
          /\ UNCHANGED loc
  /\ UNCHANGED <<wallets, logs, ledger, cache, lease, reqOf, interestVars, call, ret, calls, first>>

\* the outcome of findByPk(id, {lock: UPDATE}) and the checks after it:
\* "wait", an error name, or "ok"
LockOutcome(w, id) ==
  IF id \notin DOMAIN wallets THEN "NotFound"
  ELSE IF WalletLockedByOther(w, id) THEN "wait"
  ELSE IF id \in tx[w].staleWallets THEN "DbError"
  ELSE IF ~IsActive(wallets[id]) THEN "InactiveWallet"
  ELSE "ok"

\* findByPk(fromWalletId, FOR UPDATE), not-found and isActive checks
TxFrom(w) ==
  /\ pc[w] = "tx_from"
  /\ LET id == Req(w).fromWalletId
         o == LockOutcome(w, id)
     IN /\ o # "wait"
        /\ IF o # "ok"
           THEN Rollback(w, o)
           ELSE /\ tx' = [tx EXCEPT ![w].heldWallets = @ \cup {id}]
                /\ loc' = [loc EXCEPT ![w].fromWallet = wallets[id]]
                /\ pc' = [pc EXCEPT ![w] = "tx_to"]
  /\ UNCHANGED <<wallets, logs, ledger, cache, lease, reqOf, interestVars, call, ret, calls, first>>

\* findByPk(toWalletId, FOR UPDATE), not-found and isActive checks
TxTo(w) ==
  /\ pc[w] = "tx_to"
  /\ LET id == Req(w).toWalletId
         o == LockOutcome(w, id)
     IN /\ o # "wait"
        /\ IF o # "ok"
           THEN Rollback(w, o)
           ELSE /\ tx' = [tx EXCEPT ![w].heldWallets = @ \cup {id}]
                /\ loc' = [loc EXCEPT ![w].toWallet = wallets[id]]
                /\ pc' = [pc EXCEPT ![w] = "tx_write"]
  /\ UNCHANGED <<wallets, logs, ledger, cache, lease, reqOf, interestVars, call, ret, calls, first>>

\* walletModel.update({balance, version: v + 1}, {where: {id, version: v}}):
\* the number of rows the statement matches in the table state ws
UpdateVersioned(ws, id, version) ==
  IF id \in DOMAIN ws /\ ws[id].version = version THEN 1 ELSE 0

\* mutant: the UPDATE writes the balance and leaves the version as it was
ApplyUpdate_KeepVersion(ws, id, balance, version) ==
  IF UpdateVersioned(ws, id, version) = 1
  THEN [ws EXCEPT ![id] = [@ EXCEPT !.balance = balance]]
  ELSE ws

\* the table state after that UPDATE
ApplyUpdate(ws, id, balance, version) ==
  IF UpdateVersioned(ws, id, version) = 1
  THEN [ws EXCEPT ![id] = [@ EXCEPT !.balance = balance, !.version = version + 1]]
  ELSE ws

\* Decimal(balance).minus(amount) and Decimal(balance).plus(amount)
NewFromBalance(w) == loc[w].fromWallet.balance - Req(w).amount

\* mutant: the destination keeps its balance, the credit is lost
NewToBalance_Lost(w) == loc[w].toWallet.balance

NewToBalance(w) == loc[w].toWallet.balance + Req(w).amount

\* the wallets table as the transaction of worker w sees it after its updates
AfterFromUpdate(w) ==
  ApplyUpdate(wallets, Req(w).fromWalletId, NewFromBalance(w),
              loc[w].fromWallet.version)
AfterToUpdate(w) ==
  ApplyUpdate(AfterFromUpdate(w), Req(w).toWalletId, NewToBalance(w),
              loc[w].toWallet.version)

\* mutant: the two balance_after values change places
CreateLedgerEntries_Swapped(id, from, to, amount, fromAfter, toAfter) ==
  << [transactionId |-> id, walletId |-> from, type |-> "DEBIT",
      amount |-> amount, balanceAfter |-> toAfter],
     [transactionId |-> id, walletId |-> to, type |-> "CREDIT",
      amount |-> amount, balanceAfter |-> fromAfter] >>

\* createLedgerEntries: the DEBIT row and the CREDIT row
CreateLedgerEntries(id, from, to, amount, fromAfter, toAfter) ==
  << [transactionId |-> id, walletId |-> from, type |-> "DEBIT",
      amount |-> amount, balanceAfter |-> fromAfter],
     [transactionId |-> id, walletId |-> to, type |-> "CREDIT",
      amount |-> amount, balanceAfter |-> toAfter] >>

\* the response executeTransfer returns
TransferResult(w) ==
  [transactionId |-> loc[w].transactionLog, status |-> "COMPLETED",
   fromBalance |-> NewFromBalance(w), toBalance |-> NewToBalance(w)]

\* the rest of the transaction, from the balance check to COMMIT.  Both
\* wallet rows and the log row are locked by now, so the statements up to
\* COMMIT touch nothing another worker can see or change: the balance check,
\* the two versioned updates, the ledger inserts and the COMPLETED update
\* take effect together at COMMIT, where the row locks are released and
\* every other open snapshot starts to hold stale rows
TxCommit(w) ==
  /\ pc[w] = "tx_write"
  /\ IF ~HasAvailableBalance(loc[w].fromWallet, Req(w).amount)
     THEN Rollback(w, "InsufficientFunds")
          /\ UNCHANGED <<wallets, ledger, logs, first>>
     ELSE IF \/ UpdateVersioned(wallets, Req(w).fromWalletId,
                                loc[w].fromWallet.version) = 0
             \/ UpdateVersioned(AfterFromUpdate(w), Req(w).toWalletId,
                                loc[w].toWallet.version) = 0
     THEN Rollback(w, "VersionConflict")
          /\ UNCHANGED <<wallets, ledger, logs, first>>
     ELSE /\ wallets' = AfterToUpdate(w)
          /\ ledger' = ledger \o CreateLedgerEntries(loc[w].transactionLog,
                         Req(w).fromWalletId, Req(w).toWalletId, Req(w).amount,
                         NewFromBalance(w), NewToBalance(w))
          /\ logs' = [logs EXCEPT ![loc[w].transactionLog] =
                        [@ EXCEPT !.status = "COMPLETED", !.completedAt = TRUE]]
          /\ tx' = MarkStale(w, {Req(w).fromWalletId, Req(w).toWalletId},
                             {loc[w].transactionLog})
          /\ loc' = [loc EXCEPT ![w] =
                       [NoLocals EXCEPT
                          !.transactionLog = loc[w].transactionLog,
                          !.result = TransferResult(w)]]
          /\ first' = [first EXCEPT ![call[w].key] =
                         IF @ = NoResult THEN TransferResult(w) ELSE @]
          /\ pc' = [pc EXCEPT ![w] = "cache"]
  /\ UNCHANGED <<cache, lease, reqOf, interestVars, call, ret, calls>>

\* ------------------------------------------ transfer(): after executeTransfer
\* cacheResult: SETEX idempotency:{k}
CacheResult(w) ==
  /\ pc[w] = "cache"
  /\ cache' = [cache EXCEPT ![call[w].key] = loc[w].result]
  /\ pc' = [pc EXCEPT ![w] = "release"]
  /\ UNCHANGED <<wallets, logs, ledger, lease, reqOf, interestVars, call, loc, tx, ret, calls, first>>

\* cacheResult rejects (Redis unreachable): the catch clause of transfer()
CacheFail(w) ==
  /\ pc[w] = "cache"
  /\ Throw(w, "CacheError")
  /\ UNCHANGED <<wallets, logs, ledger, cache, lease, reqOf, interestVars, call, tx, ret, calls, first>>

\* the status the catch clause of transfer() writes
\* mutant: the catch clause writes PENDING instead of FAILED
FailedStatus_Pending == "PENDING"

FailedStatus == "FAILED"

\* catch: transactionLog.update({status: FAILED, errorMessage}), autocommit;
\* the UPDATE waits for a row lock another transaction holds on the row
FailUpdate(w) ==
  /\ pc[w] = "fail_update"
  /\ ~LogLockedByOther(w, loc[w].transactionLog)
  /\ logs' = [logs EXCEPT ![loc[w].transactionLog] =
                [@ EXCEPT !.status = FailedStatus, !.errorMessage = TRUE]]
  /\ tx' = [MarkStale(w, {}, {loc[w].transactionLog}) EXCEPT ![w] = tx[w]]
  /\ pc' = [pc EXCEPT ![w] = "release"]
  /\ UNCHANGED <<wallets, ledger, cache, lease, reqOf, interestVars, call, loc, ret, calls, first>>

\* mutant: the error of the FAILED update replaces the original error
FailUpdateFault_Rethrow(w) ==
  /\ pc[w] = "fail_update"
  /\ pc' = [pc EXCEPT ![w] = "release"]
  /\ loc' = [loc EXCEPT ![w].error = "UpdateError"]
  /\ UNCHANGED <<wallets, logs, ledger, cache, lease, reqOf, interestVars, call, tx, ret, calls, first>>

\* catch: the FAILED update itself throws; the error is logged and swallowed
FailUpdateFault(w) ==
  /\ pc[w] = "fail_update"
  /\ pc' = [pc EXCEPT ![w] = "release"]
  /\ UNCHANGED <<wallets, logs, ledger, cache, lease, reqOf, interestVars, call, loc, tx, ret, calls, first>>

\* finally: releaseLock (DEL lock:{k}), then the result or the error goes out
Release(w) ==
  /\ pc[w] = "release"
  /\ lease' = ReleaseLock(call[w].key)
  /\ Return(w, IF loc[w].error = "none" THEN "fresh" ELSE loc[w].error,
            loc[w].result)
  /\ UNCHANGED <<wallets, logs, ledger, cache, reqOf, interestVars, tx, calls, first>>

\* ------------------------------------------------------------ environment
\* the EX 30 of acquireLock: Redis drops lock:{k}
LeaseExpire(k) ==
  /\ lease[k]
  /\ lease' = [lease EXCEPT ![k] = FALSE]
  /\ UNCHANGED <<wallets, logs, ledger, cache, reqOf, interestVars, pc, call, loc, tx, ret, calls, first>>

\* an operator takes an ACTIVE wallet out of service with an UPDATE of its
\* own: it waits for the row lock, and the new row version is a concurrent
\* update for every open snapshot
SetStatus(id) ==
  /\ IsActive(wallets[id])
  /\ Cardinality({i \in WalletIds : ~IsActive(wallets[i])}) < MaxInactive
  /\ \A o \in Workers : id \notin tx[o].heldWallets
  /\ wallets' = [wallets EXCEPT ![id].status = "SUSPENDED"]
  /\ tx' = [o \in Workers |->
              IF tx[o].snapshot
              THEN [tx[o] EXCEPT !.staleWallets = @ \cup {id}]
              ELSE tx[o]]
  /\ UNCHANGED <<logs, ledger, cache, lease, reqOf, interestVars, pc, call, loc, ret, calls, first>>

\* the IDEMPOTENCY_TTL of cacheResult: Redis drops idempotency:{k}
CacheExpire(k) ==
  /\ cache[k] \notin {NoResult, ExpiredResult}
  /\ cache' = [cache EXCEPT ![k] = ExpiredResult]
  /\ UNCHANGED <<wallets, logs, ledger, lease, reqOf, interestVars, pc, call, loc, tx, ret, calls, first>>

TxPcs == {"tx_begin", "tx_log", "tx_from", "tx_to", "tx_write"}

\* a database error (connection loss, serialization failure) surfaces in
\* the insert of the log row or in a statement of the transaction
DbFault(w) ==
  /\ pc[w] \in TxPcs \cup {"create"}
  /\ Rollback(w, "DbError")
  /\ UNCHANGED <<wallets, logs, ledger, cache, lease, reqOf, interestVars, call, ret, calls, first>>

\* worker w waits for a row lock that worker o holds
BlockedBy(w, o) ==
  /\ o # w
  /\ \/ pc[w] = "tx_log" /\ loc[w].transactionLog \in tx[o].heldLogs
     \/ pc[w] = "tx_from" /\ Req(w).fromWalletId \in tx[o].heldWallets
     \/ pc[w] = "tx_to" /\ Req(w).toWalletId \in tx[o].heldWallets

RECURSIVE WaitChain(_, _)
WaitChain(S, n) ==
  IF n = 0 THEN S
  ELSE WaitChain(S \cup {o \in Workers : \E u \in S : BlockedBy(u, o)}, n - 1)

\* PostgreSQL's deadlock detector aborts a transaction of a wait cycle
DeadlockAbort(w) ==
  /\ w \in WaitChain({o \in Workers : BlockedBy(w, o)}, NWorkers)
  /\ Rollback(w, "DbError")
  /\ UNCHANGED <<wallets, logs, ledger, cache, lease, reqOf, interestVars, call, ret, calls, first>>

\* -------------------------------------------------------------------- Next
\* at most MaxConcurrent calls are in flight at a time
StartBounded(w) == w <= MaxConcurrent /\ Start(w)

\* the steps of a call after its start
Serve(w) ==
  \/ CheckCache(w)
  \/ CheckDb(w)
  \/ CheckFrom(w)
  \/ CheckTo(w)
  \/ Acquire(w)
  \/ Create(w)
  \/ DupFind(w)
  \/ DupFrom(w)
  \/ DupTo(w)
  \/ TxBegin(w)
  \/ TxLog(w)
  \/ TxFrom(w)
  \/ TxTo(w)
  \/ TxCommit(w)
  \/ CacheResult(w)
  \/ CacheFail(w)
  \/ FailUpdate(w)
  \/ FailUpdateFault(w)
  \/ Release(w)
  \/ DbFault(w)

\* the TTLs of Redis
Expire ==
  \E k \in Keys :
    \/ LeaseExpire(k)
    \/ CacheExpire(k)

Next ==
  \/ \E w \in Workers :
       \/ StartBounded(w)
       \/ Serve(w)
       \/ DeadlockAbort(w)
  \/ Expire

Spec == Init /\ [][Next]_vars

\* ------------------------------------- the service with wallets out of service
\* pairs of payloads, for the odd and the even keys: transfers between the
\* seeded wallets in both directions, and transfers to and from "Z", a wallet
\* id with no row in the wallets table
RequestsStatus ==
  { << [fromWalletId |-> "A", toWalletId |-> "B", amount |-> 1],
       [fromWalletId |-> "B", toWalletId |-> "A", amount |-> 1] >>,
    << [fromWalletId |-> "A", toWalletId |-> "Z", amount |-> 1],
       [fromWalletId |-> "Z", toWalletId |-> "B", amount |-> 1] >> }

InitStatus ==
  /\ wallets = [id \in WalletIds |->
                  [balance |-> OpeningBalance[id], version |-> InitialVersion,
                   status |-> "ACTIVE"]]
  /\ logs = <<>>
  /\ ledger = <<>>
  /\ cache = [k \in Keys |-> NoResult]
  /\ lease = [k \in Keys |-> FALSE]
  /\ \E p \in RequestsStatus : reqOf = [k \in Keys |-> p[2 - (k % 2)]]
  /\ pc = [w \in Workers |-> "idle"]
  /\ call = [w \in Workers |-> NoCall]
  /\ loc = [w \in Workers |-> NoLocals]
  /\ tx = [w \in Workers |-> NoTx]
  /\ ret = [w \in Workers |-> NoRet]
  /\ calls = 0
  /\ first = [k \in Keys |-> NoResult]
  /\ InterestIdle

NextStatus ==
  \/ Next
  \/ \E id \in WalletIds : SetStatus(id)

SpecStatus == InitStatus /\ [][NextStatus]_vars

\* ------------------------------- every worker of the pool serving one key
\* the clients use a single idempotency key, and all NWorkers workers may
\* serve calls at the same time; every transaction locks the key's log row
\* first, so no wait cycle can form
InitSameKey ==
  /\ wallets = [id \in WalletIds |->
                  [balance |-> OpeningBalance[id], version |-> InitialVersion,
                   status |-> "ACTIVE"]]
  /\ logs = <<>>
  /\ ledger = <<>>
  /\ cache = [k \in Keys |-> NoResult]
  /\ lease = [k \in Keys |-> FALSE]
  /\ \E r \in Requests : reqOf = [k \in Keys |-> IF k = 1 THEN r ELSE NoReq]
  /\ pc = [w \in Workers |-> "idle"]
  /\ call = [w \in Workers |-> NoCall]
  /\ loc = [w \in Workers |-> NoLocals]
  /\ tx = [w \in Workers |-> NoTx]
  /\ ret = [w \in Workers |-> NoRet]
  /\ calls = 0
  /\ first = [k \in Keys |-> NoResult]
  /\ InterestIdle

NextSameKey ==
  \/ \E w \in Workers :
       \/ Start(w)
       \/ Serve(w)
  \/ Expire

SpecSameKey == InitSameKey /\ [][NextSameKey]_vars

\* ------------------------------------------- a worker that stops mid-transfer
\* the process serving the call dies inside executeTransfer: the call never
\* continues, PostgreSQL aborts the transaction of the lost connection and
\* drops its row locks; lock:{k} stays until its TTL
Crash(w) ==
  /\ pc[w] \in TxPcs
  /\ pc' = [pc EXCEPT ![w] = "crashed"]
  /\ tx' = [tx EXCEPT ![w] = NoTx]
  /\ UNCHANGED <<wallets, logs, ledger, cache, lease, reqOf, interestVars, call, loc, ret, calls, first>>

NextCrash ==
  \/ \E w \in Workers :
       \/ StartBounded(w)
       \/ Serve(w)
       \/ Crash(w)
  \/ Expire

SpecCrash == InitSameKey /\ [][NextCrash]_vars

\* ------------------------------------ calls that finish within the lease
\* every call reaches releaseLock before the 30 s of its lease are over, so
\* Redis never drops lock:{k} on its own
NextLease ==
  \/ \E w \in Workers :
       \/ StartBounded(w)
       \/ Serve(w)
       \/ DeadlockAbort(w)
  \/ \E k \in Keys : CacheExpire(k)

SpecLease == Init /\ [][NextLease]_vars

\* ------------------------------- a versioned update that matches no row
\* walletModel.update resolves with zero affected rows, for the source or for
\* the destination, as the service's unit test stubs it: the comparison after the
\* two updates throws ConflictException inside the managed transaction, which
\* rolls back whatever the transaction has written, a matched source debit
\* included
UpdateMiss(w) ==
  /\ pc[w] = "tx_write"
  /\ HasAvailableBalance(loc[w].fromWallet, Req(w).amount)
  /\ Rollback(w, "VersionConflict")
  /\ UNCHANGED <<wallets, logs, ledger, cache, lease, reqOf, interestVars, call, ret, calls, first>>

NextConflict ==
  \/ \E w \in Workers :
       \/ StartBounded(w)
       \/ Serve(w)
       \/ UpdateMiss(w)
  \/ Expire

SpecConflict == InitSameKey /\ [][NextConflict]_vars

\* ===================================================== interest service
\* Decimal.js values are kept digit by digit, because the service works with
\* 20 significant digits.  The arithmetic on digit sequences goes through
\* limbs of four digits, so that every intermediate value is a machine
\* integer.

\* DECIMAL_CONFIG.precision: significant digits kept by every Decimal
\* operation of the service
Precision == 20

\* a limb holds four decimal digits
Base == 10 ^ 4

Zeros(n) == [i \in 1..n |-> 0]
Reverse(s) == [i \in 1..Len(s) |-> s[Len(s) + 1 - i]]
Least(S) == CHOOSE i \in S : \A j \in S : i <= j
Greatest(S) == CHOOSE i \in S : \A j \in S : j <= i

StripZeros(s) ==
  LET nz == {i \in 1..Len(s) : s[i] # 0}
  IN IF nz = {} THEN <<>> ELSE SubSeq(s, Least(nz), Len(s))

\* the digits of the natural number n
Digits(n) ==
  LET len == Cardinality({k \in 0..9 : 10 ^ k <= n})
  IN [i \in 1..len |-> (n \div (10 ^ (len - i))) % 10]

\* digits of s + 1
Increment(s) ==
  LET nn == {i \in 1..Len(s) : s[i] # 9}
  IN IF nn = {} THEN <<1>> \o Zeros(Len(s))
     ELSE [i \in 1..Len(s) |->
             IF i < Greatest(nn) THEN s[i]
             ELSE IF i = Greatest(nn) THEN s[i] + 1 ELSE 0]

\* the limbs of a digit sequence, least significant limb first
ToLimbs(s) ==
  LET n == (Len(s) + 3) \div 4
      p == Zeros(n * 4 - Len(s)) \o s
  IN [i \in 1..n |->
        LET j == (n - i) * 4
        IN 1000 * p[j + 1] + 100 * p[j + 2] + 10 * p[j + 3] + p[j + 4]]

\* the digits of a sequence of limbs (least significant limb first)
FromLimbs(l) ==
  StripZeros([p \in 1..(4 * Len(l)) |->
                LET i == Len(l) - ((p - 1) \div 4)
                IN (l[i] \div (10 ^ (3 - ((p - 1) % 4))))
                     % 10])

\* carry propagation over column sums (least significant first)
RECURSIVE Normalise(_, _)
Normalise(cols, carry) ==
  IF cols = <<>>
  THEN IF carry = 0 THEN <<>> ELSE Normalise(<<0>>, carry)
  ELSE <<(Head(cols) + carry) % Base>>
         \o Normalise(Tail(cols), (Head(cols) + carry) \div Base)

\* digits of a + b
AddDigits(a, b) ==
  LET x == ToLimbs(a)
      y == ToLimbs(b)
      n == IF Len(x) >= Len(y) THEN Len(x) ELSE Len(y)
  IN FromLimbs(Normalise([k \in 1..n |->
                            (IF k <= Len(x) THEN x[k] ELSE 0)
                              + (IF k <= Len(y) THEN y[k] ELSE 0)], 0))

\* column k of the schoolbook product of the limbs x and y
RECURSIVE Column(_, _, _, _)
Column(x, y, k, i) ==
  IF i > Len(x) THEN 0
  ELSE (IF k + 1 - i \in 1..Len(y) THEN x[i] * y[k + 1 - i] ELSE 0)
         + Column(x, y, k, i + 1)

\* digits of a * b (exact)
TimesDigits(a, b) ==
  LET x == ToLimbs(a)
      y == ToLimbs(b)
  IN IF x = <<>> \/ y = <<>> THEN <<>>
     ELSE FromLimbs(Normalise([k \in 1..(Len(x) + Len(y) - 1) |->
                                 Column(x, y, k, 1)], 0))

\* long division of limbs (most significant first) by the small natural n:
\* quotient limbs q (most significant first) and remainder r
RECURSIVE DivLimbs(_, _, _, _)
DivLimbs(l, n, r, q) ==
  IF l = <<>> THEN [q |-> q, r |-> r]
  ELSE DivLimbs(Tail(l), n, (r * Base + Head(l)) % n,
                Append(q, (r * Base + Head(l)) \div n))

\* floor(s / n) as digits, and the remainder
LongDivision(s, n) ==
  LET qr == DivLimbs(Reverse(ToLimbs(s)), n, 0, <<>>)
  IN [q |-> FromLimbs(Reverse(qr.q)), r |-> qr.r]

\* where the discarded part of a number lies relative to half a unit of the
\* last kept digit: t are the discarded digits, sticky tells that something
\* non-zero follows them
Discarded(t, sticky) ==
  IF (\A i \in 1..Len(t) : t[i] = 0) THEN (IF sticky THEN "below" ELSE "zero")
  ELSE IF t[1] < 5 THEN "below"
  ELSE IF t[1] > 5 \/ sticky \/ (\E i \in 2..Len(t) : t[i] # 0) THEN "above"
  ELSE "half"

\* Decimal.ROUND_HALF_EVEN applied to the kept digits
RoundHalfEven(kept, rest) ==
  IF rest = "above"
       \/ (rest = "half" /\ kept # <<>> /\ kept[Len(kept)] % 2 = 1)
  THEN Increment(kept)
  ELSE kept

Dec(neg, d, e) ==
  LET s == StripZeros(d) IN [neg |-> neg /\ s # <<>>, d |-> s, e |-> e]

\* every Decimal operation rounds its result to Precision significant digits
ToPrecision(x, sticky) ==
  IF Len(x.d) <= Precision
  THEN x
  ELSE LET k == Len(x.d) - Precision
           kept == SubSeq(x.d, 1, Precision)
           rest == Discarded(SubSeq(x.d, Precision + 1, Len(x.d)), sticky)
           r == RoundHalfEven(kept, rest)
       IN IF x.e >= k
          THEN Dec(x.neg, r, x.e - k)
          ELSE Dec(x.neg, r \o Zeros(k - x.e), 0)

\* Decimal.times
Times(x, y) ==
  ToPrecision(Dec(x.neg # y.neg, TimesDigits(x.d, y.d), x.e + y.e), FALSE)

\* Decimal.dividedBy(n) for a positive integer n
DividedBy(x, n) ==
  LET pad == Precision + Len(Digits(n))
      qr == LongDivision(x.d \o Zeros(pad), n)
  IN ToPrecision(Dec(x.neg, qr.q, x.e + pad), qr.r # 0)

\* Decimal.plus, for two values of the same sign
Plus(x, y) ==
  LET e == IF x.e >= y.e THEN x.e ELSE y.e
  IN ToPrecision(Dec(x.neg, AddDigits(x.d \o Zeros(e - x.e),
                                      y.d \o Zeros(e - y.e)), e), FALSE)

\* Decimal.toDecimalPlaces(dp, ROUND_HALF_EVEN): at most dp decimals
ToDecimalPlaces(x, dp) ==
  IF x.e <= dp
  THEN x
  ELSE LET k == x.e - dp
           padded == IF Len(x.d) < k THEN Zeros(k - Len(x.d)) \o x.d ELSE x.d
           kept == SubSeq(padded, 1, Len(padded) - k)
           rest == Discarded(SubSeq(padded, Len(padded) - k + 1, Len(padded)),
                             FALSE)
       IN Dec(x.neg, RoundHalfEven(kept, rest), dp)

\* Decimal.toFixed(dp): the string with exactly dp decimals; the Decimal
\* rounding mode of the service is ROUND_HALF_EVEN
ToFixed(x, dp) ==
  LET r == ToDecimalPlaces(x, dp)
  IN Dec(r.neg, r.d \o Zeros(dp - r.e), dp)

\* x > n for a natural n (parseFloat(x) > n on a decimal string)
GreaterThan(x, n) ==
  /\ ~x.neg
  /\ LET whole == IF Len(x.d) > x.e THEN SubSeq(x.d, 1, Len(x.d) - x.e)
                  ELSE <<>>
         frac == IF Len(x.d) > x.e
                 THEN SubSeq(x.d, Len(x.d) - x.e + 1, Len(x.d)) ELSE x.d
         m == Digits(n)
     IN \/ Len(whole) > Len(m)
        \/ /\ Len(whole) = Len(m)
           /\ \/ \E i \in 1..Len(m) :
                   /\ whole[i] > m[i]
                   /\ \A j \in 1..(i - 1) : whole[j] = m[j]
              \/ whole = m /\ \E i \in 1..Len(frac) : frac[i] # 0

\* ------------------------------------------------ JavaScript Date objects
\* days from 1970-01-01 to the civil date y-m-d (proleptic Gregorian)
DaysFromCivil(y, m, d) ==
  LET yy == IF m <= 2 THEN y - 1 ELSE y
      era == yy \div 400
      yoe == yy - era * 400
      mp == IF m > 2 THEN m - 3 ELSE m + 9
      doy == (153 * mp + 2) \div 5 + d - 1
      doe == yoe * 365 + yoe \div 4 - yoe \div 100 + doy
  IN era * 146097 + doe - 719468

\* the civil date of day number z
CivilFromDays(z) ==
  LET zz == z + 719468
      era == zz \div 146097
      doe == zz - era * 146097
      yoe == (doe - doe \div 1460 + doe \div 36524 - doe \div 146096) \div 365
      doy == doe - (365 * yoe + yoe \div 4 - yoe \div 100)
      mp == (5 * doy + 2) \div 153
      m == IF mp < 10 THEN mp + 3 ELSE mp - 9
  IN [y |-> yoe + era * 400 + (IF m <= 2 THEN 1 ELSE 0),
      m |-> m,
      d |-> doy - (153 * mp + 2) \div 5 + 1]

\* the time zones the server process may run in: UTC, and a zone west of
\* Greenwich with daylight saving time (the 2024 rules of America/New_York:
\* UTC-4 from 2024-03-10T07:00Z to 2024-11-03T06:00Z, UTC-5 otherwise)
TimeZones == {"UTC", "America/New_York"}

DstStart == 24 * DaysFromCivil(2024, 3, 10) + 7
DstEnd == 24 * DaysFromCivil(2024, 11, 3) + 6

\* local time minus UTC at the instant t, in hours
TzOffset(z, t) ==
  IF z = "UTC" THEN 0
  ELSE IF DstStart <= t /\ t < DstEnd THEN -4 ELSE -5

\* the instant at which the clocks of zone z show the local time wall (the
\* earlier one where two do, the standard-time reading where none does)
UtcOf(z, wall) ==
  LET c == {t \in {wall, wall + 4, wall + 5} : t + TzOffset(z, t) = wall}
  IN IF c = {} THEN wall + 5 ELSE Least(c)

\* new Date(s) for a date-only string: midnight UTC of that day
NewDate(s) ==
  IF s.m \in 1..12 /\ s.d \in 1..31
  THEN [valid |-> TRUE, t |-> 24 * DaysFromCivil(s.y, s.m, s.d)]
  ELSE InvalidDate

\* Date.getFullYear(): the year of the local date
GetFullYear(z, date) ==
  CivilFromDays((date.t + TzOffset(z, date.t)) \div 24).y

\* Date.toISOString().split('T')[0]: the UTC date
ToISODate(date) == CivilFromDays(date.t \div 24)

\* date.setDate(date.getDate() + 1): the same local time on the next local
\* day
SetNextDate(z, date) ==
  [valid |-> TRUE, t |-> UtcOf(z, date.t + TzOffset(z, date.t) + 24)]

\* ------------------------------------------------------ InterestService
MaxPrincipal == 1000000000
MaxRate == 100

\* validateInput: TRUE when it does not throw.  The principal is a string
\* of at most two decimals, on which parseFloat is exact.
ValidateInput(dto) ==
  /\ GreaterThan(dto.principalAmount, 0)
  /\ ~GreaterThan(dto.principalAmount, MaxPrincipal)
  /\ ~dto.annualRate.neg
  /\ ~GreaterThan(dto.annualRate, MaxRate)
  /\ NewDate(dto.calculationDate).valid

IsLeapYear(year) ==
  IF year % 400 = 0 THEN TRUE
  ELSE IF year % 100 = 0 THEN FALSE
  ELSE IF year % 4 = 0 THEN TRUE
  ELSE FALSE

\* mutant: the record is not written
SaveInterestRecord_Skip(data) == <<>>

\* saveInterestRecord: the row that interestRecordModel.create inserts
SaveInterestRecord(data) ==
  << [id |-> data.id,
      principalAmount |-> data.principalAmount,
      annualRate |-> data.annualRate,
      dailyRate |-> data.dailyRate,
      interestAmount |-> data.interestAmount,
      calculationDate |-> data.calculationDate,
      isLeapYear |-> data.isLeapYear,
      daysInYear |-> data.daysInYear,
      by |-> data.by] >>

\* calculateDailyInterest in time zone z: what it throws or returns, and the
\* rows it inserts; saveOk tells whether the INSERT succeeds, id is the id
\* of the new row, by names the caller (history)
DailyOutcome(dto, z, saveOk, id, by) ==
  IF ~ValidateInput(dto)
  THEN [kind |-> "BadRequest", response |-> NoResponse, rows |-> <<>>]
  ELSE
    LET calculationDate == NewDate(dto.calculationDate)
        year == GetFullYear(z, calculationDate)
        isLeapYear == IsLeapYear(year)
        daysInYear == IF isLeapYear THEN 366 ELSE 365
        principal == dto.principalAmount
        annualRate == dto.annualRate
        dailyRate == DividedBy(annualRate, daysInYear)
        interestAmount ==
          ToDecimalPlaces(DividedBy(Times(principal, dailyRate), 100), 2)
        response == [principal |-> ToFixed(principal, 2),
                     annualRate |-> dto.annualRate,
                     dailyRate |-> ToFixed(dailyRate, 10),
                     interestAmount |-> ToFixed(interestAmount, 2),
                     calculationDate |-> dto.calculationDate,
                     isLeapYear |-> isLeapYear,
                     daysInYear |-> daysInYear,
                     recordId |-> id]
        rows == SaveInterestRecord(
                  [id |-> id,
                   principalAmount |-> response.principal,
                   annualRate |-> ToFixed(annualRate, 8),
                   dailyRate |-> response.dailyRate,
                   interestAmount |-> response.interestAmount,
                   calculationDate |-> calculationDate,
                   isLeapYear |-> isLeapYear,
                   daysInYear |-> daysInYear,
                   by |-> by])
    IN IF saveOk
       THEN [kind |-> "ok", response |-> response, rows |-> rows]
       ELSE [kind |-> "BadRequest", response |-> NoResponse, rows |-> <<>>]

\* ------------------------------------------------- requests of the clients
Day(y, m, d) == [y |-> y, m |-> m, d |-> d]
DailyDto(p, r, date) ==
  [principalAmount |-> p, annualRate |-> r, calculationDate |-> date]
BatchDto(p, r, from, to) ==
  [principalAmount |-> p, annualRate |-> r, startDate |-> from,
   endDate |-> to]

\* "1000.00" at 5 percent
Thousand == Dec(FALSE, <<1, 0, 0, 0, 0, 0>>, 2)
FivePercent == Dec(FALSE, <<5>>, 0)

\* calculateDailyInterest requests: ordinary, leap and century years, the
\* first day of a year, a zero rate, amounts whose interest is half a cent,
\* the largest principal and rate, and the inputs validateInput rejects
DailyInputs ==
  { DailyDto(Thousand, FivePercent, Day(2023, 6, 15)),
    DailyDto(Thousand, FivePercent, Day(2024, 6, 15)),
    DailyDto(Thousand, FivePercent, Day(2024, 1, 1)),
    DailyDto(Thousand, FivePercent, Day(1900, 3, 1)),
    DailyDto(Thousand, FivePercent, Day(2000, 2, 29)),
    DailyDto(Thousand, NoDecimal, Day(2023, 6, 15)),
    DailyDto(Dec(FALSE, <<1, 8, 3, 0, 0>>, 2), Dec(FALSE, <<1>>, 0),
             Day(2024, 6, 15)),
    DailyDto(Dec(FALSE, <<3, 6, 5, 0, 0>>, 2), Dec(FALSE, <<5>>, 1),
             Day(2023, 6, 15)),
    DailyDto(Dec(FALSE, Digits(MaxPrincipal) \o <<0, 0>>, 2),
             Dec(FALSE, Digits(MaxRate), 0), Day(2023, 6, 15)),
    DailyDto(Dec(FALSE, Digits(MaxPrincipal) \o <<0, 1>>, 2), FivePercent,
             Day(2023, 6, 15)),
    DailyDto(Dec(FALSE, <<>>, 2), FivePercent, Day(2023, 6, 15)),
    DailyDto(Dec(TRUE, <<1, 0, 0, 0, 0>>, 2), FivePercent, Day(2023, 6, 15)),
    DailyDto(Thousand, Dec(TRUE, <<1>>, 0), Day(2023, 6, 15)),
    DailyDto(Thousand, Dec(FALSE, <<1, 0, 0, 0, 1>>, 2), Day(2023, 6, 15)),
    DailyDto(Thousand, FivePercent, NoDate) }

\* calculateBatchInterest requests: ranges across the start and the end of
\* daylight saving time, across a year end, of one day, a reversed range,
\* and a principal validateInput rejects
BatchInputs ==
  { BatchDto(Thousand, FivePercent, Day(2024, 3, 9), Day(2024, 3, 11)),
    BatchDto(Thousand, FivePercent, Day(2024, 11, 2), Day(2024, 11, 4)),
    BatchDto(Thousand, FivePercent, Day(2023, 12, 31), Day(2024, 1, 1)),
    BatchDto(Thousand, FivePercent, Day(2024, 2, 29), Day(2024, 2, 29)),
    BatchDto(Thousand, FivePercent, Day(2024, 1, 5), Day(2024, 1, 3)),
    BatchDto(Dec(FALSE, <<>>, 2), FivePercent, Day(2024, 2, 28),
             Day(2024, 2, 29)) }

\* ------------------------------------------------- calculateDailyInterest
\* the whole handler: validation, calculation and the INSERT, which may fail
CalculateDailyInterest ==
  /\ daily.kind = "pending"
  /\ \E saveOk \in BOOLEAN :
       LET o == DailyOutcome(daily.dto, tz, saveOk, Len(records) + 1, "daily")
       IN /\ daily' = [daily EXCEPT !.kind = o.kind, !.response = o.response]
          /\ records' = records \o o.rows
  /\ UNCHANGED <<walletVars, tz, batch>>

\* ------------------------------------------------- calculateBatchInterest
\* entry: the two dates are parsed and compared
BatchStart ==
  /\ batch.pc = "start"
  /\ LET startDate == NewDate(batch.dto.startDate)
         endDate == NewDate(batch.dto.endDate)
     IN IF startDate.valid /\ endDate.valid /\ endDate.t < startDate.t
        THEN batch' = [batch EXCEPT !.pc = "done", !.kind = "BadRequest"]
        ELSE batch' = [batch EXCEPT !.pc = "loop", !.currentDate = startDate,
                                    !.calculations = <<>>,
                                    !.totalInterest = NoDecimal]
  /\ UNCHANGED <<walletVars, tz, records, daily>>

\* the loop condition currentDate <= endDate
LoopCondition ==
  LET endDate == NewDate(batch.dto.endDate)
  IN /\ batch.currentDate.valid
     /\ endDate.valid
     /\ batch.currentDate.t <= endDate.t

\* one iteration of the loop: the day's calculation, whose exception ends
\* the request, and the step to the next day
BatchIterate ==
  /\ batch.pc = "loop"
  /\ LoopCondition
  /\ \E saveOk \in BOOLEAN :
       LET dateStr == ToISODate(batch.currentDate)
           dailyCalc ==
             DailyOutcome(DailyDto(batch.dto.principalAmount,
                                   batch.dto.annualRate, dateStr),
                          tz, saveOk, Len(records) + 1, "batch")
       IN /\ records' = records \o dailyCalc.rows
          /\ IF dailyCalc.kind = "ok"
             THEN batch' =
                    [batch EXCEPT
                       !.calculations = Append(@, dailyCalc.response),
                       !.totalInterest =
                          Plus(@, dailyCalc.response.interestAmount),
                       !.currentDate = SetNextDate(tz, @)]
             ELSE batch' = [batch EXCEPT !.pc = "done", !.kind = "BadRequest"]
  /\ UNCHANGED <<walletVars, tz, daily>>

\* after the loop: the aggregated response
BatchReturn ==
  /\ batch.pc = "loop"
  /\ ~LoopCondition
  /\ batch' = [batch EXCEPT !.pc = "done", !.kind = "ok",
                            !.totalInterest = ToFixed(@, 2),
                            !.numberOfDays = Len(batch.calculations)]
  /\ UNCHANGED <<walletVars, tz, records, daily>>

\* ------------------------------------------------- the interest service
\* no transfer is requested; the server runs in one of the time zones, one
\* client asks for a daily calculation and one for a batch
InitInterest ==
  /\ wallets = [id \in WalletIds |->
                  [balance |-> OpeningBalance[id], version |-> InitialVersion,
                   status |-> "ACTIVE"]]
  /\ logs = <<>>
  /\ ledger = <<>>
  /\ cache = [k \in Keys |-> NoResult]
  /\ lease = [k \in Keys |-> FALSE]
  /\ reqOf = [k \in Keys |-> NoReq]
  /\ pc = [w \in Workers |-> "idle"]
  /\ call = [w \in Workers |-> NoCall]
  /\ loc = [w \in Workers |-> NoLocals]
  /\ tx = [w \in Workers |-> NoTx]
  /\ ret = [w \in Workers |-> NoRet]
  /\ calls = 0
  /\ first = [k \in Keys |-> NoResult]
  /\ tz \in TimeZones
  /\ records = <<>>
  /\ \E dto \in DailyInputs : daily = [NoDaily EXCEPT !.dto = dto,
                                                       !.kind = "pending"]
  /\ \E dto \in BatchInputs : batch = [NoBatch EXCEPT !.dto = dto,
                                                       !.pc = "start"]

NextInterest ==
  \/ CalculateDailyInterest
  \/ BatchStart
  \/ BatchIterate
  \/ BatchReturn

SpecInterest == InitInterest /\ [][NextInterest]_vars

\* ================================================================== claims
LogIds == 1..Len(logs)
EntriesOf(id) == {j \in 1..Len(ledger) : ledger[j].transactionId = id}
EntriesOfType(id, t) == {j \in EntriesOf(id) : ledger[j].type = t}

RECURSIVE SumAmounts(_)
SumAmounts(S) ==
  IF S = {} THEN 0
  ELSE LET j == CHOOSE x \in S : TRUE IN ledger[j].amount + SumAmounts(S \ {j})

\* a step of worker w: every action of a worker moves its pc
StepOf(w) == pc'[w] # pc[w]

\* C1: whatever the interleaving of the Transfer calls that carry one
\* idempotency key, the ledger holds at most two entries for the key's
\* transaction, one DEBIT and one CREDIT: the money moves at most once.
C1_MovedAtMostOnce ==
  \A id \in LogIds :
    /\ Cardinality(EntriesOf(id)) <= 2
    /\ Cardinality(EntriesOfType(id, "DEBIT")) <= 1
    /\ Cardinality(EntriesOfType(id, "CREDIT")) <= 1

C3_ReplayIdentical ==
  \A w \in Workers :
    (pc[w] = "idle" /\ ret[w].late /\ ret[w].kind \in {"cached", "replay", "fresh"})
      => ret[w].result = first[ret[w].key]

\* C4: every COMPLETED log row has exactly two ledger entries, one DEBIT on
\* its source and one CREDIT on its destination, both of the row's amount.
C4_ExactlyTwoEntries ==
  \A id \in LogIds :
    IsCompleted(logs[id]) =>
      /\ Cardinality(EntriesOf(id)) = 2
      /\ \E d \in EntriesOfType(id, "DEBIT") :
           /\ ledger[d].walletId = logs[id].fromWalletId
           /\ ledger[d].amount = logs[id].amount
      /\ \E c \in EntriesOfType(id, "CREDIT") :
           /\ ledger[c].walletId = logs[id].toWalletId
           /\ ledger[c].amount = logs[id].amount
      /\ SumAmounts(EntriesOfType(id, "DEBIT")) = logs[id].amount
      /\ SumAmounts(EntriesOfType(id, "CREDIT")) = logs[id].amount

\* the ledger entries of wallet id and type t that belong to COMPLETED rows
CompletedEntries(id, t) ==
  {j \in 1..Len(ledger) :
     /\ ledger[j].walletId = id
     /\ ledger[j].type = t
     /\ IsCompleted(logs[ledger[j].transactionId])}

\* C5: every wallet's committed balance is its opening balance plus the
\* CREDIT entries minus the DEBIT entries of COMPLETED transfers.
C5_BalancedLedger ==
  \A id \in WalletIds :
    wallets[id].balance =
      OpeningBalance[id] + SumAmounts(CompletedEntries(id, "CREDIT"))
                         - SumAmounts(CompletedEntries(id, "DEBIT"))

\* C6: no committed wallet balance is negative.
C6_NonNegative == \A id \in WalletIds : wallets[id].balance >= 0

\* C6 witness: a transfer was refused for insufficient funds on a source
\* wallet that a COMPLETED transfer of another key has debited to zero.
C6_Witness ==
  \E w \in Workers :
    /\ pc[w] = "idle"
    /\ ret[w].kind = "InsufficientFunds"
    /\ \E id \in LogIds :
         /\ IsCompleted(logs[id])
         /\ logs[id].idempotencyKey # ret[w].key
         /\ logs[id].fromWalletId = reqOf[ret[w].key].fromWalletId
         /\ wallets[logs[id].fromWalletId].balance = 0

\* C7: versions never decrease; a commit raises the version of its source
\* and of its destination by exactly one and leaves the other wallets alone;
\* every other step, a failing transfer included, changes no version.
C7_VersionMonotone ==
  [][IF Len(ledger') > Len(ledger)
     THEN \A id \in WalletIds :
            wallets'[id].version =
              wallets[id].version
                + (IF id \in {ledger'[Len(ledger) + 1].walletId,
                              ledger'[Len(ledger) + 2].walletId}
                   THEN 1 ELSE 0)
     ELSE \A id \in WalletIds : wallets'[id].version = wallets[id].version]_vars

\* C7 witness: both wallets carry a raised version after a commit and a
\* later transfer has failed inside the transaction.
C7_Witness ==
  /\ \A id \in WalletIds : wallets[id].version > InitialVersion
  /\ \E w \in Workers :
       pc[w] = "idle" /\ ret[w].kind \in {"InsufficientFunds", "DbError"}
  /\ \E id \in LogIds : logs[id].status = "FAILED"

\* C8: a committed COMPLETED status never changes again.
C8_CompletedTerminal ==
  [][\A id \in LogIds :
       IsCompleted(logs[id]) => IsCompleted(logs'[id])]_vars

\* C9: a Transfer call that starts when the row of its key is FAILED ends in
\* a conflict error (or in the error of a failing database).
C9_FailedTerminal ==
  \A w \in Workers :
    (pc[w] = "idle" /\ ret[w].startStatus = "FAILED")
      => ret[w].kind \in {"Conflict", "DbError"}

\* the status changes of the state machine; PROCESSING is written and
\* replaced inside one transaction, so a commit shows PENDING -> COMPLETED
\* and a rollback followed by the FAILED update shows PENDING -> FAILED
StatusEdges ==
  { <<"PENDING", "PROCESSING">>, <<"PROCESSING", "COMPLETED">>,
    <<"PROCESSING", "FAILED">>, <<"PENDING", "COMPLETED">>,
    <<"PENDING", "FAILED">> }

\* C10: rows are created PENDING, are never deleted, never carry
\* ROLLED_BACK, and change status only along the edges of the state machine.
C10_StatusMachine ==
  [][/\ Len(logs') >= Len(logs)
     /\ \A id \in 1..Len(logs') :
          IF id > Len(logs)
          THEN logs'[id].status = "PENDING"
          ELSE /\ logs'[id].status # "ROLLED_BACK"
               /\ \/ logs'[id].status = logs[id].status
                  \/ <<logs[id].status, logs'[id].status>> \in StatusEdges]_vars

\* C11: a transaction_logs row has completed_at set exactly when its status
\* is COMPLETED.
C11_CompletedAtIffCompleted ==
  \A id \in LogIds : logs[id].completedAt <=> logs[id].status = "COMPLETED"

\* C12: there is at most one transaction_logs row per idempotency key, hence
\* at most one COMPLETED row per key.
C12_OneRowPerKey ==
  \A i, j \in LogIds :
    logs[i].idempotencyKey = logs[j].idempotencyKey => i = j

\* a second insert for a key was attempted and refused
C12_Witness ==
  \E w \in Workers :
    /\ pc[w] = "dup_find"
    /\ Cardinality({i \in LogIds : logs[i].idempotencyKey = call[w].key}) = 1

\* two calls in flight with distinct keys that move the same amount in
\* opposite directions between the same two wallets
Opposite(w, o) ==
  /\ w # o
  /\ call[w].key # 0 /\ call[o].key # 0 /\ call[w].key # call[o].key
  /\ Req(w).fromWalletId = Req(o).toWalletId
  /\ Req(w).toWalletId = Req(o).fromWalletId
  /\ Req(w).amount = Req(o).amount

\* C13: two concurrent transfers with distinct keys in opposite directions
\* (A->B and B->A, same amount, both funded) both commit; in particular
\* neither is aborted because of a lock-order deadlock, so the two never wait
\* for each other's wallet lock.
C13_NoLockOrderDeadlock ==
  \A w, o \in Workers :
    Opposite(w, o) => ~(BlockedBy(w, o) /\ BlockedBy(o, w))

\* the requests the contract calls invalid
Malformed(r) ==
  \/ r.fromWalletId = r.toWalletId
  \/ r.amount <= 0
  \/ r.amount > MaxAmount

C15_InvalidAlwaysRejected ==
  \A w \in Workers :
    (pc[w] = "idle" /\ ret[w].kind # "none" /\ ~ret[w].valid) =>
      ret[w].kind = "BadRequest"

\* C16: when the result cache holds an entry for k, transfer() with key k
\* returns exactly that entry and does not re-enter the protocol: no lease, no
\* log row, no database transaction, no rewrite of the cache.
C16_CacheHitReturns ==
  [][\A w \in Workers :
       (pc[w] = "check" /\ cache[call[w].key] \notin {NoResult, ExpiredResult}
          /\ StepOf(w)) =>
         /\ pc'[w] = "idle"
         /\ ret'[w].kind = "cached"
         /\ ret'[w].result = cache[call[w].key]
         /\ UNCHANGED <<wallets, logs, ledger, cache, lease, tx>>]_vars

\* a call was answered from the result cache
C16_Witness ==
  \E w \in Workers :
    /\ pc[w] = "idle" /\ ret[w].kind = "cached"
    /\ ret[w].result = cache[ret[w].key]

\* C17: when lock:{k} is held by another worker, transfer() fails with
\* ConcurrentInProgress without inserting or updating a log row, without
\* touching wallets or ledger, and without deleting the other worker's lease.
C17_LeaseHeldConflict ==
  [][\A w \in Workers :
       (pc[w] = "acquire" /\ ~Malformed(Req(w)) /\ lease[call[w].key]
          /\ StepOf(w)) =>
         /\ pc'[w] = "idle"
         /\ ret'[w].kind = "Conflict"
         /\ UNCHANGED <<wallets, logs, ledger, cache, lease, tx>>]_vars

\* a call was refused while the holder of the lease had not yet inserted the
\* key's log row, and the lease is still there
C17_Witness ==
  \E w \in Workers :
    /\ pc[w] = "idle" /\ ret[w].kind = "Conflict"
    /\ lease[ret[w].key] /\ FindOne(ret[w].key) = 0

\* the positions of transfer() between acquireLock and releaseLock
LeasePcs ==
  {"create", "dup_find", "dup_from", "dup_to", "tx_begin", "tx_log", "tx_from",
   "tx_to", "tx_write", "cache", "fail_update", "release"}

\* C18: every call that acquired the lease of k releases it before it
\* returns, on the success path and on every error path, so lock:{k} is
\* never held unless a call for k is between acquireLock and releaseLock.
C18_LeaseReleased ==
  \A k \in Keys :
    lease[k] => \E w \in Workers : call[w].key = k /\ pc[w] \in LeasePcs

\* a call whose result-cache write failed has returned and its lease is gone
C18_Witness ==
  \E w \in Workers :
    /\ pc[w] = "idle" /\ ret[w].kind = "CacheError"
    /\ ~lease[ret[w].key]

\* C19: when the locked source wallet's balance is below the amount, the
\* call fails with InsufficientFunds; afterwards the key's log row exists and
\* there are no ledger entries for it.
C19_InsufficientFundsNoLedger ==
  \A w \in Workers :
    (pc[w] \in {"fail_update", "release"}
       /\ loc[w].error = "InsufficientFunds") =>
      /\ loc[w].transactionLog \in LogIds
      /\ EntriesOf(loc[w].transactionLog) = {}

\* the wallet id that the lock step of worker w asks for
LockTarget(w) ==
  IF pc[w] = "tx_from" THEN Req(w).fromWalletId ELSE Req(w).toWalletId

\* C20: locking an absent source or destination fails with NotFound, locking
\* one that is not ACTIVE fails with InactiveWallet (a database failure of
\* the statement aside); neither changes a wallet or writes a ledger entry,
\* and a transfer commits only with both wallets ACTIVE while locked.
C20_AbsentOrInactive ==
  [][\A w \in Workers :
       /\ (pc[w] \in {"tx_from", "tx_to"} /\ StepOf(w)
             /\ LockTarget(w) \notin DOMAIN wallets) =>
            /\ loc'[w].error \in {"NotFound", "DbError"}
            /\ UNCHANGED <<wallets, ledger>>
       /\ (pc[w] \in {"tx_from", "tx_to"} /\ StepOf(w)
             /\ LockTarget(w) \in DOMAIN wallets
             /\ wallets[LockTarget(w)].status # "ACTIVE") =>
            /\ loc'[w].error \in {"InactiveWallet", "DbError"}
            /\ UNCHANGED <<wallets, ledger>>
       /\ (pc[w] = "tx_write" /\ pc'[w] = "cache") =>
            /\ loc[w].fromWallet.status = "ACTIVE"
            /\ loc[w].toWallet.status = "ACTIVE"
            /\ wallets[Req(w).fromWalletId].status = "ACTIVE"
            /\ wallets[Req(w).toWalletId].status = "ACTIVE"]_vars

\* one call has failed on the absent wallet and another on a suspended one
C20_Witness ==
  /\ \E w \in Workers : pc[w] = "idle" /\ ret[w].kind = "NotFound"
  /\ \E w \in Workers : pc[w] = "idle" /\ ret[w].kind = "InactiveWallet"

\* C21 as stated: after an error inside the serializable section the log
\* row is set to FAILED with the error's message.
C21_AlwaysSetFailed ==
  [][\A w \in Workers :
       (pc[w] = "fail_update" /\ loc[w].error # "CacheError" /\ StepOf(w)) =>
         /\ logs'[loc[w].transactionLog].status = "FAILED"
         /\ logs'[loc[w].transactionLog].errorMessage]_vars

\* C21: an error raised inside the serializable section rolls the
\* transaction back as a whole (no wallet, ledger or log row changes and the
\* row locks are dropped); outside the transaction the catch clause then tries
\* to set the log row to FAILED with the error's message, leaving the row as
\* it was when that update itself fails; the same error reaches the caller.
C21_RollbackThenFailed ==
  [][\A w \in Workers : StepOf(w) =>
       /\ (pc[w] \in TxPcs /\ loc'[w].error # "none") =>
            /\ UNCHANGED <<wallets, ledger, logs>>
            /\ tx'[w] = NoTx
            /\ pc'[w] = "fail_update"
       /\ (pc[w] = "fail_update" /\ loc[w].error # "CacheError") =>
            /\ UNCHANGED <<wallets, ledger>>
            /\ pc'[w] = "release"
            /\ loc'[w].error = loc[w].error
            /\ \/ logs' = logs
               \/ logs' = [logs EXCEPT ![loc[w].transactionLog] =
                             [@ EXCEPT !.status = "FAILED",
                                       !.errorMessage = TRUE]]
       /\ (pc[w] = "release" /\ loc[w].error # "none") =>
            ret'[w].kind = loc[w].error]_vars

\* a first execution failed for lack of funds: its row is FAILED with the
\* message, no ledger entry was written and the caller got the error
C21_Witness ==
  \E w \in Workers :
    /\ pc[w] = "idle" /\ ret[w].kind = "InsufficientFunds"
    /\ FindOne(ret[w].key) # 0
    /\ logs[FindOne(ret[w].key)].status = "FAILED"
    /\ logs[FindOne(ret[w].key)].errorMessage
    /\ EntriesOf(FindOne(ret[w].key)) = {}

\* C22: for a single idempotency key, no two workers are inside the
\* serializable section at the same time, also when the lease of the first
\* expires while it runs and a second worker acquires it.
C22_OneWorkerInSection ==
  \A w, o \in Workers :
    (pc[w] \in TxPcs /\ pc[o] \in TxPcs /\ call[w].key = call[o].key) => w = o

\* worker c has stopped in the first execution of its key: the row it
\* inserted is still PENDING
CrashedPending(c) ==
  /\ pc[c] = "crashed"
  /\ logs[loc[c].transactionLog].status = "PENDING"

\* C23: when a worker stops after inserting the log row of k and before its
\* transaction commits, the row stays PENDING forever: every call with key k,
\* also after the lease TTL, ends with ConcurrentInProgress (a malformed one
\* with InvalidRequest, a failing insert with the database error) and
\* changes neither the row nor any wallet or ledger row.
C23_CrashLeavesPending ==
  [][\A c \in Workers : CrashedPending(c) =>
       /\ UNCHANGED <<wallets, ledger, logs>>
       /\ \A w \in Workers :
            (call[w].key = call[c].key /\ pc[w] # "idle" /\ pc'[w] = "idle") =>
              ret'[w].kind = IF Malformed(Req(w)) THEN "BadRequest"
                             ELSE IF loc[w].error = "DbError" THEN "DbError"
                             ELSE "Conflict"]_vars

\* after the crash and the end of the lease, a later call got past
\* acquireLock and was refused on the unique index
C23_Witness ==
  \E c, w \in Workers :
    /\ CrashedPending(c)
    /\ call[w].key = call[c].key /\ call[w].startStatus = "PENDING"
    /\ pc[w] = "release" /\ loc[w].error = "Conflict"

\* C24: once the cached result of a key has expired, a call that starts
\* with that key is treated as a new request: after the cache miss it goes on
\* to validation and the lease instead of being answered from the earlier
\* attempt.
C24_ExpiredKeyIsNew ==
  [][\A w \in Workers :
       (pc[w] = "check_db" /\ call[w].expired /\ StepOf(w)) =>
         pc'[w] = "acquire"]_vars

\* ------------------------------------------------------------ C25 .. C28
\* the record row holds what the response r reports
SameAsResponse(row, r) ==
  /\ row.id = r.recordId
  /\ row.principalAmount = r.principal
  /\ row.dailyRate = r.dailyRate
  /\ row.interestAmount = r.interestAmount
  /\ row.isLeapYear = r.isLeapYear
  /\ row.daysInYear = r.daysInYear

\* the inputs input validation rejects: principal <= 0 or > 1,000,000,000,
\* annual rate < 0 or > 100, unparsable date
Rejected(dto) ==
  \/ dto.principalAmount.neg
  \/ dto.principalAmount.d = <<>>
  \/ GreaterThan(dto.principalAmount, 1000000000)
  \/ dto.annualRate.neg
  \/ GreaterThan(dto.annualRate, 100)
  \/ dto.calculationDate = NoDate

\* C25: calculateDailyInterest stores exactly one interest record for each
\* call that returns a result, with the principal, daily rate, interest
\* amount, isLeapYear and daysInYear of the response; a call that throws
\* throws BadRequest and stores nothing, and a call with an input that
\* validation rejects throws.  This holds for the calls a client makes and
\* for the calls the batch loop makes.
C25_OneRecordPerResult ==
  [][/\ (daily.kind = "pending" /\ daily'.kind # "pending") =>
          /\ IF daily'.kind = "ok"
             THEN /\ Len(records') = Len(records) + 1
                  /\ SubSeq(records', 1, Len(records)) = records
                  /\ SameAsResponse(records'[Len(records')], daily'.response)
             ELSE /\ daily'.kind = "BadRequest"
                  /\ records' = records
          /\ Rejected(daily.dto) => daily'.kind = "BadRequest"
     /\ (batch.pc = "loop" /\ batch' # batch /\ batch'.kind # "ok") =>
          IF Len(batch'.calculations) = Len(batch.calculations) + 1
          THEN /\ Len(records') = Len(records) + 1
               /\ SubSeq(records', 1, Len(records)) = records
               /\ SameAsResponse(records'[Len(records')],
                                 batch'.calculations[Len(batch'.calculations)])
          ELSE /\ batch'.kind = "BadRequest"
               /\ batch'.calculations = batch.calculations
               /\ records' = records]_vars

\* a daily call returned a result and its record is in the table, and the
\* batch request was refused by the validation of its first day
C25_Witness ==
  /\ daily.kind = "ok"
  /\ \E i \in 1..Len(records) :
       records[i].by = "daily" /\ SameAsResponse(records[i], daily.response)
  /\ batch.kind = "BadRequest"
  /\ Rejected(DailyDto(batch.dto.principalAmount, batch.dto.annualRate,
                       batch.dto.startDate))
  /\ \A i \in 1..Len(records) : records[i].by # "batch"

\* the responses of all daily calculations made so far
Responses ==
  (IF daily.kind = "ok" THEN {daily.response} ELSE {})
    \cup {batch.calculations[i] : i \in 1..Len(batch.calculations)}

\* the Gregorian rule
LeapRule(y) == y % 400 = 0 \/ (y % 4 = 0 /\ y % 100 # 0)

\* C26: for every calculation date, isLeapYear is true exactly when the
\* year of the date is divisible by 400, or by 4 and not by 100, and
\* daysInYear is 366 when isLeapYear is true and 365 otherwise.
C26_LeapYearOfDate ==
  \A r \in Responses :
    /\ r.isLeapYear = LeapRule(r.calculationDate.y)
    /\ r.daysInYear = IF r.isLeapYear THEN 366 ELSE 365

\* number of days from the date a to the date b
DaysBetween(a, b) ==
  DaysFromCivil(b.y, b.m, b.d) - DaysFromCivil(a.y, a.m, a.d)

\* the date n days after the date a
DayAfter(a, n) == CivilFromDays(DaysFromCivil(a.y, a.m, a.d) + n)

\* the rows the batch request has stored
BatchRecords == {i \in 1..Len(records) : records[i].by = "batch"}

\* the sum of the interestAmount strings (in cents, as digits)
RECURSIVE SumInterest(_)
SumInterest(cs) ==
  IF cs = <<>> THEN <<>>
  ELSE AddDigits(SumInterest(SubSeq(cs, 1, Len(cs) - 1)),
                 cs[Len(cs)].interestAmount.d)

\* C27: calculateBatchInterest over [startDate, endDate] with endDate >=
\* startDate makes exactly one daily calculation per calendar day of the
\* inclusive range: a returned result has numberOfDays = calculations.length
\* = (days between the dates) + 1, its i-th calculation is for the i-th day
\* of the range, one record is stored per day, and totalInterest is the sum
\* of the daily interestAmount values; with endDate < startDate the request
\* fails with BadRequest and stores no record.
C27_OneCalculationPerDay ==
  batch.pc = "done" =>
    LET n == DaysBetween(batch.dto.startDate, batch.dto.endDate) + 1
    IN IF n <= 0
       THEN batch.kind = "BadRequest" /\ BatchRecords = {}
       ELSE batch.kind = "ok" =>
              /\ batch.numberOfDays = Len(batch.calculations)
              /\ batch.numberOfDays = n
              /\ \A i \in 1..n :
                   batch.calculations[i].calculationDate
                     = DayAfter(batch.dto.startDate, i - 1)
              /\ Cardinality(BatchRecords) = n
              /\ batch.totalInterest
                   = Dec(FALSE, SumInterest(batch.calculations), 2)

\* the value of a short digit sequence
RECURSIVE IntOf(_)
IntOf(s) ==
  IF s = <<>> THEN 0 ELSE 10 * IntOf(SubSeq(s, 1, Len(s) - 1)) + s[Len(s)]

\* principal x annualRate / (days x 100), computed exactly and then rounded
\* half-even to cents: with p = P / 10^p.e and r = R / 10^r.e the amount in
\* cents is P x R / (days x 10^(p.e + r.e))
ExactInterest(p, r, days) ==
  LET k == p.e + r.e
      n == Zeros(k) \o TimesDigits(p.d, r.d)
      qr == LongDivision(SubSeq(n, 1, Len(n) - k), days)
      num == 2 * (qr.r * (10 ^ k) + IntOf(SubSeq(n, Len(n) - k + 1, Len(n))))
      den == days * (10 ^ k)
      rest == IF num = 0 THEN "zero"
              ELSE IF num < den THEN "below"
              ELSE IF num = den THEN "half" ELSE "above"
  IN Dec(FALSE, RoundHalfEven(qr.q, rest), 2)

\* C28: for every valid input, interestAmount equals principal x annualRate
\* / (daysInYear x 100) rounded to 2 decimal places half-even, daysInYear
\* being that of the year of the calculation date; a zero rate gives 0.00.
\* (Stated for the responses whose daysInYear is that of the date's year.)
C28_ExactHalfEven ==
  \A r \in Responses :
    r.daysInYear = (IF LeapRule(r.calculationDate.y) THEN 366 ELSE 365) =>
      r.interestAmount = ExactInterest(r.principal, r.annualRate, r.daysInYear)

\* lexicographic order of the wallet ids
IdLess(a, b) == (a = "A" /\ b \in {"B", "Z"}) \/ (a = "B" /\ b = "Z")

\* C29: inside the serializable section the two wallet row locks are taken
\* in ascending lexicographic order of wallet id, whichever wallet is the
\* source: a transaction that holds a wallet lock holds the lock of the
\* smaller of its two wallet ids.
C29_AscendingLockOrder ==
  \A w \in Workers :
    tx[w].heldWallets # {} =>
      (IF IdLess(Req(w).toWalletId, Req(w).fromWalletId)
       THEN Req(w).toWalletId ELSE Req(w).fromWalletId) \in tx[w].heldWallets

\* C30: when the PENDING insert fails on the unique index, the existing row
\* is read again: if it is COMPLETED the call goes on to synthesize its
\* result and never enters the serializable section; otherwise it fails
\* with ConcurrentInProgress; in both cases no wallet, ledger or log row
\* changes.
C30_DuplicateKeyBranch ==
  [][\A w \in Workers : StepOf(w) =>
       /\ pc[w] = "dup_find" =>
            /\ UNCHANGED <<wallets, ledger, logs>>
            /\ IF FindOne(call[w].key) # 0
                    /\ logs[FindOne(call[w].key)].status = "COMPLETED"
               THEN pc'[w] = "dup_from"
               ELSE loc'[w].error = "Conflict"
       /\ pc[w] \in {"dup_from", "dup_to"} =>
            /\ UNCHANGED <<wallets, ledger, logs>>
            /\ pc'[w] \notin TxPcs]_vars

\* --------------------------------------------------------------------- C31
\* C31: durable intent precedes money movement.  Every step that changes the
\* wallets or the ledger is a step of a call whose own insert of the log row
\* of its key has succeeded; a call whose insert failed, whatever the error,
\* changes neither the wallets nor the ledger
C31_IntentBeforeMovement ==
  [][(wallets' # wallets \/ ledger' # ledger) =>
       \E w \in Workers :
         /\ StepOf(w)
         /\ call[w].inserted
         /\ loc[w].transactionLog \in LogIds
         /\ logs[loc[w].transactionLog].idempotencyKey = call[w].key]_vars

\* --------------------------------------------------------------------- C33
\* C33: the version predicate is redundant inside the protocol.  When every
\* wallet write goes through transfer(), a transaction that has locked and
\* read both wallet rows finds both versioned updates matching exactly one
\* row, and no call ever raises or returns VersionConflict
C33_VersionAlwaysMatches ==
  \A w \in Workers :
    /\ loc[w].error # "VersionConflict"
    /\ ret[w].kind # "VersionConflict"
    /\ pc[w] = "tx_write" =>
         /\ UpdateVersioned(wallets, Req(w).fromWalletId,
                            loc[w].fromWallet.version) = 1
         /\ UpdateVersioned(AfterFromUpdate(w), Req(w).toWalletId,
                            loc[w].toWallet.version) = 1

\* a transaction is about to write rows that an overlapping transfer, which
\* began while this one was open, has left with a raised version
C33_Witness ==
  \E w \in Workers :
    /\ pc[w] = "tx_write"
    /\ loc[w].fromWallet.version > InitialVersion
    /\ loc[w].toWallet.version > InitialVersion
    /\ \E o \in Workers \ {w} : pc[o] \in TxPcs /\ tx[o].snapshot

\* --------------------------------------------------------------------- C32
\* C32: a versioned wallet update that affects zero rows makes the transfer
\* fail with VersionConflict and leaves no trace.  The step that raises the
\* error changes no wallet, writes no ledger entry and commits nothing to the
\* log row; the call returns VersionConflict, and the log row of its key is
\* not COMPLETED when it returns
C32_ConflictLeavesNoTrace ==
  [][\A w \in Workers : StepOf(w) =>
       /\ (loc[w].error # "VersionConflict" /\ loc'[w].error = "VersionConflict")
            => UNCHANGED <<wallets, ledger, logs>>
       /\ (loc[w].error = "VersionConflict" /\ pc'[w] = "idle") =>
            /\ ret'[w].kind = "VersionConflict"
            /\ logs'[loc[w].transactionLog].status # "COMPLETED"]_vars

\* --------------------------------------------------------------------- C34
\* C34: the FAILED status update is best effort.  When the update of the log
\* row to FAILED itself fails (the row stays as it was), the failure is
\* swallowed: the call keeps the original error and goes on to the finally
\* block, which deletes the lease of its key and hands the original error to
\* the caller
C34_FailedUpdateBestEffort ==
  [][\A w \in Workers : StepOf(w) =>
       /\ (pc[w] = "fail_update" /\ logs' = logs) =>
            /\ pc'[w] = "release"
            /\ loc'[w].error = loc[w].error
            /\ loc'[w].error # "none"
       /\ (pc[w] = "release" /\ loc[w].error # "none") =>
            /\ pc'[w] = "idle"
            /\ ~lease'[call[w].key]
            /\ ret'[w].kind = loc[w].error
            /\ ret'[w].result = NoResult]_vars

\* a call that failed for lack of funds has returned that error with its
\* lease deleted, while its log row is still PENDING: the FAILED update failed
C34_Witness ==
  \E w \in Workers :
    /\ pc[w] = "idle" /\ ret[w].kind = "InsufficientFunds"
    /\ FindOne(ret[w].key) # 0
    /\ logs[FindOne(ret[w].key)].status = "PENDING"
    /\ ~lease[ret[w].key]

\* --------------------------------------------------------------------- C35
\* C35: balance_after is the wallet's committed balance right after the
\* entry's transfer.  The ledger only grows, and only by the pair of a
\* committing transfer: its DEBIT carries the source's committed balance
\* before the commit minus the amount, its CREDIT the destination's committed
\* balance before the commit plus the amount; both are the balances the
\* commit leaves in the wallets table and the new balances of the Result
C35_BalanceAfterIsCommitted ==
  [][ledger' # ledger =>
       \E w \in Workers :
         LET from == Req(w).fromWalletId
             to == Req(w).toWalletId
             debit == ledger'[Len(ledger) + 1]
             credit == ledger'[Len(ledger) + 2]
         IN /\ StepOf(w)
            /\ Len(ledger') = Len(ledger) + 2
            /\ SubSeq(ledger', 1, Len(ledger)) = ledger
            /\ debit.type = "DEBIT" /\ debit.walletId = from
            /\ credit.type = "CREDIT" /\ credit.walletId = to
            /\ debit.balanceAfter = wallets[from].balance - Req(w).amount
            /\ credit.balanceAfter = wallets[to].balance + Req(w).amount
            /\ debit.balanceAfter = wallets'[from].balance
            /\ credit.balanceAfter = wallets'[to].balance
            /\ loc'[w].result.fromBalance = debit.balanceAfter
            /\ loc'[w].result.toBalance = credit.balanceAfter]_vars

\* two transfers have committed, the second one on balances that the first
\* one had changed
C35_Witness ==
  /\ Len(ledger) >= 4
  /\ ledger[3].balanceAfter # ledger[1].balanceAfter
  /\ ledger[3].balanceAfter = wallets[ledger[3].walletId].balance
  /\ ledger[4].balanceAfter = wallets[ledger[4].walletId].balance

\* --------------------------------------------------------------------- C36
\* C36: money is conserved.  After any sequence and interleaving of transfer
\* calls, successful or failed, the balances of all wallets add up to what
\* they added up to before the first call
RECURSIVE TotalBalance(_, _)
TotalBalance(ws, ids) ==
  IF ids = {} THEN 0
  ELSE LET id == CHOOSE i \in ids : TRUE
       IN ws[id].balance + TotalBalance(ws, ids \ {id})

C36_MoneyConserved ==
  TotalBalance(wallets, WalletIds) =
    TotalBalance([id \in WalletIds |-> [balance |-> OpeningBalance[id]]],
                 WalletIds)

\* a transfer has moved money and another call has failed inside the
\* serializable section or after it
C36_Witness ==
  /\ \E id \in WalletIds : wallets[id].balance # OpeningBalance[id]
  /\ \E w \in Workers :
       pc[w] = "idle" /\ ret[w].kind \in {"InsufficientFunds", "DbError", "CacheError"}

\* --------------------------------------------------------------------- C37
\* C37: a log row whose committed status is not COMPLETED (PENDING,
\* PROCESSING or FAILED) has no committed ledger entry, so it has moved no
\* money; a transfer whose transaction committed is never recorded as FAILED,
\* also when the result-cache write after the commit fails
C37_OnlyCompletedMovesMoney ==
  \A id \in LogIds :
    logs[id].status # "COMPLETED" => EntriesOf(id) = {}

\* --------------------------------------------------------------------- C38
\* C38: the result cache never runs ahead of the database.  Whenever
\* idempotency:{k} holds an entry, the log row of k is committed with status
\* COMPLETED, the entry names that row, and its new balances are the
\* balance_after values of a DEBIT and a CREDIT committed for that row
C38_CacheBehindDatabase ==
  \A k \in Keys :
    cache[k] \notin {NoResult, ExpiredResult} =>
      LET id == FindOne(k) IN
        /\ id # 0
        /\ logs[id].status = "COMPLETED"
        /\ cache[k].transactionId = id
        /\ \E d \in EntriesOfType(id, "DEBIT") :
             ledger[d].balanceAfter = cache[k].fromBalance
        /\ \E c \in EntriesOfType(id, "CREDIT") :
             ledger[c].balanceAfter = cache[k].toBalance

\* --------------------------------------------------------------------- C39
\* the calls that own lock:{k}: they have set it and not yet deleted it
Owners(k) == {w \in Workers : call[w].key = k /\ pc[w] \in LeasePcs}

\* C39: the lease is deleted only by the call that set it.  As long as no
\* call outlives the TTL of its lease, at most one call owns lock:{k} at any
\* time and the lease is set exactly while it is owned; the lease is deleted
\* only by the releaseLock of its owner; a call that is refused the lease
\* leaves it in place and does not become an owner
C39_OnlyOwnerDeletes ==
  /\ [](\A k \in Keys :
          /\ Cardinality(Owners(k)) <= 1
          /\ lease[k] <=> Owners(k) # {})
  /\ [][/\ \A k \in Keys :
            (lease[k] /\ ~lease'[k]) =>
              \E w \in Owners(k) : pc[w] = "release" /\ StepOf(w)
        /\ \A w \in Workers :
            (pc[w] = "acquire" /\ lease[call[w].key] /\ StepOf(w)) =>
              /\ lease' = lease
              /\ pc'[w] = "idle"]_vars

\* a call was refused the lease of a key whose transfer another call has
\* committed; the lease is still set and its owner is about to delete it
C39_Witness ==
  \E w, o \in Workers :
    /\ pc[w] = "idle" /\ ret[w].kind = "Conflict"
    /\ lease[ret[w].key]
    /\ Owners(ret[w].key) = {o}
    /\ pc[o] = "release" /\ loc[o].error = "none"

====
